---- MODULE Spec2Model ----
(***************************************************************************)
(* Model of scripts/deploy-vault.ts: the configuration loader              *)
(* (requireAddress, getAmountEnv, loadConfig) and the top-level deployment *)
(* sequence that follows it.                                               *)
(*                                                                         *)
(* Strings are sequences of one-character strings, so that length, prefix  *)
(* and character tests are computed the way the script computes them.      *)
(* An environment variable is <<>> when unset and <<s>> when set to the    *)
(* string s.  A bigint is its decimal digit sequence without leading       *)
(* zeros (<<0>> for zero), so values such as 1000 * 10^18 are exact.       *)
(***************************************************************************)
EXTENDS Integers, Sequences, FiniteSets, TLC

VARIABLES env, pc, params, error, exitCode, ops, wallets, nonce, deployed,
          strategy, vaultImplementation, initData, proxy, vault, report

vars == <<env, pc, params, error, exitCode, ops, wallets, nonce, deployed,
          strategy, vaultImplementation, initData, proxy, vault, report>>

(***************************************************************************)
(* Strings                                                                 *)
(***************************************************************************)
Rep(c, n) == [i \in 1..n |-> c]

Unset == <<>>
Set(s) == <<s>>

Digits == <<"0", "1", "2", "3", "4", "5", "6", "7", "8", "9">>
DigitChars == {Digits[i] : i \in 1..10}
DigitVal(c) == (CHOOSE i \in 1..10 : Digits[i] = c) - 1

\* String.prototype.startsWith("0x")
startsWith0x(s) == Len(s) >= 2 /\ s[1] = "0" /\ s[2] = "x"

\* the length an address string must have (value.length !== 42)
AddrLen == 42

\* the names of the environment variables the script reads
ASSET_ADDRESS == "ASSET_ADDRESS"
ATOKEN_ADDRESS == "ATOKEN_ADDRESS"
AAVE_PROVIDER_ADDRESS == "AAVE_PROVIDER_ADDRESS"
VERIFIER_ADDRESS == "VERIFIER_ADDRESS"
MAX_USER_DEPOSIT == "MAX_USER_DEPOSIT"
MAX_TOTAL_DEPOSIT == "MAX_TOTAL_DEPOSIT"
ASSET_DECIMALS == "ASSET_DECIMALS"
REBALANCER_ADDRESS == "REBALANCER_ADDRESS"
AUTHORIZE_VAULT == "AUTHORIZE_VAULT"

\* the four required variables in the order loadConfig reads them
RequiredVars == <<ASSET_ADDRESS, ATOKEN_ADDRESS, AAVE_PROVIDER_ADDRESS, VERIFIER_ADDRESS>>

(***************************************************************************)
(* Results of a call that may throw                                        *)
(***************************************************************************)
Return(v) == [ok |-> TRUE, value |-> v]
Throw(kind, name) == [ok |-> FALSE, value |-> [kind |-> kind, name |-> name]]

(***************************************************************************)
(* Numbers and bigints                                                     *)
(***************************************************************************)
\* a JavaScript number: NaN, or a non-negative integer
NaN == [nan |-> TRUE, val |-> 0]
Num(n) == [nan |-> FALSE, val |-> n]

RECURSIVE DecValue(_)
DecValue(s) == IF s = <<>> THEN 0
               ELSE 10 * DecValue(SubSeq(s, 1, Len(s) - 1)) + DigitVal(s[Len(s)])

\* Number(s) on the strings the model supplies: "" is 0, a string of decimal
\* digits is its value, a string with any other character here is NaN.
Number(s) == IF \A i \in 1..Len(s) : s[i] \in DigitChars THEN Num(DecValue(s)) ELSE NaN

RECURSIVE StripZeros(_)
StripZeros(ds) == IF Len(ds) > 1 /\ ds[1] = 0 THEN StripZeros(Tail(ds)) ELSE ds

\* BigInt(s) for a string of decimal digits ("" is 0n)
BigInt(s) == IF s = <<>> THEN <<0>> ELSE StripZeros([i \in 1..Len(s) |-> DigitVal(s[i])])

\* String.prototype.padEnd(n, "0"); a NaN length pads nothing
padEnd(s, n) == IF n.nan \/ n.val <= Len(s) THEN s ELSE s \o Rep("0", n.val - Len(s))

\* viem parseUnits(value, decimals) on strings without sign or decimal point:
\* a string with a non-digit character is rejected; otherwise the (empty)
\* fraction is padded to `decimals` zeros and integer+fraction is read as a
\* bigint.
parseUnits(value, decimals) ==
  IF \E i \in 1..Len(value) : value[i] \notin DigitChars
    THEN Throw("InvalidAmountFormat", "parseUnits")
    ELSE LET integer == value
             fraction == IF ~decimals.nan /\ decimals.val = 0 THEN <<>>
                         ELSE padEnd(<<>>, decimals)
         IN Return(BigInt(integer \o fraction))

(***************************************************************************)
(* Configuration loader                                                    *)
(***************************************************************************)
\* requireAddress testing `value === undefined` in place of `!value`
requireAddress_UndefinedOnly(e, name) ==
  LET value == e[name] IN
  IF value = Unset
    THEN Throw("MissingConfiguration", name)
  ELSE IF ~startsWith0x(value[1]) \/ Len(value[1]) # AddrLen
    THEN Throw("InvalidAddressFormat", name)
  ELSE Return(value[1])

requireAddress(e, name) ==
  LET value == e[name] IN
  IF value = Unset \/ value[1] = <<>>
    THEN Throw("MissingConfiguration", name)
  ELSE IF ~startsWith0x(value[1]) \/ Len(value[1]) # AddrLen
    THEN Throw("InvalidAddressFormat", name)
  ELSE Return(value[1])

\* getAmountEnv taking the fallback with `||` in place of `??`
getAmountEnv_OrFallback(e, name, decimals, fallback) ==
  LET raw == IF e[name] = Unset \/ e[name][1] = <<>> THEN fallback ELSE e[name][1]
  IN parseUnits(raw, decimals)

getAmountEnv(e, name, decimals, fallback) ==
  LET raw == IF e[name] = Unset THEN fallback ELSE e[name][1]
  IN parseUnits(raw, decimals)

\* the flag compared without regard to case
authorizeVaultOnVerifier_AnyCase(e) ==
  e[AUTHORIZE_VAULT] \in {Set(<<"t", "r", "u", "e">>), Set(<<"T", "R", "U", "E">>),
                          Set(<<"T", "r", "u", "e">>)}

\* process.env.AUTHORIZE_VAULT === "true"
authorizeVaultOnVerifier(e) == e[AUTHORIZE_VAULT] = Set(<<"t", "r", "u", "e">>)

\* Number(process.env.ASSET_DECIMALS ?? "18")
assetDecimals(e) ==
  Number(IF e[ASSET_DECIMALS] = Unset THEN <<"1", "8">> ELSE e[ASSET_DECIMALS][1])

\* a rebalancer that is kept only when it passes the address test
rebalancer_Validated(e) ==
  IF e[REBALANCER_ADDRESS] # Unset /\ startsWith0x(e[REBALANCER_ADDRESS][1])
       /\ Len(e[REBALANCER_ADDRESS][1]) = AddrLen
    THEN e[REBALANCER_ADDRESS] ELSE Unset

\* process.env.REBALANCER_ADDRESS as Address | undefined
rebalancer(e) == e[REBALANCER_ADDRESS]

\* The properties of the object literal are evaluated in source order; the
\* first call that throws ends loadConfig.
loadConfig(e) ==
  LET decimals == assetDecimals(e)
      asset == requireAddress(e, ASSET_ADDRESS)
      aToken == requireAddress(e, ATOKEN_ADDRESS)
      addressesProvider == requireAddress(e, AAVE_PROVIDER_ADDRESS)
      verifier == requireAddress(e, VERIFIER_ADDRESS)
      maxUserDeposit == getAmountEnv(e, MAX_USER_DEPOSIT, decimals, <<"1", "0", "0", "0">>)
      maxTotalDeposit == getAmountEnv(e, MAX_TOTAL_DEPOSIT, decimals, <<"1", "0", "0", "0", "0">>)
  IN
  IF ~asset.ok THEN asset
  ELSE IF ~aToken.ok THEN aToken
  ELSE IF ~addressesProvider.ok THEN addressesProvider
  ELSE IF ~verifier.ok THEN verifier
  ELSE IF ~maxUserDeposit.ok THEN maxUserDeposit
  ELSE IF ~maxTotalDeposit.ok THEN maxTotalDeposit
  ELSE Return([asset |-> asset.value,
               aToken |-> aToken.value,
               addressesProvider |-> addressesProvider.value,
               verifier |-> verifier.value,
               maxUserDeposit |-> maxUserDeposit.value,
               maxTotalDeposit |-> maxTotalDeposit.value,
               assetDecimals |-> decimals,
               rebalancer |-> rebalancer(e),
               authorizeVaultOnVerifier |-> authorizeVaultOnVerifier(e)])

(***************************************************************************)
(* Environments the runs start from                                        *)
(***************************************************************************)
Addr(c) == <<"0", "x">> \o Rep(c, AddrLen - 2)

\* wallet accounts of the connected network, as the client reports them
Account1 == Addr("A")
Account2 == Addr("B")

GoodAsset == Addr("1")
GoodAToken == Addr("2")
GoodProvider == Addr("3")
GoodVerifier == Addr("4")
NonHex == Addr("g")                                  \* 0x + 40 non-hex characters
NonHexOne == <<"0", "x">> \o Rep("a", AddrLen - 3) \o <<"g">>  \* one non-hex character
TooShort == <<"0", "x">> \o Rep("a", AddrLen - 3)   \* 41 characters
TooLong == <<"0", "x">> \o Rep("a", AddrLen - 1)    \* 43 characters
NoPrefix == Rep("a", AddrLen)                        \* 42 characters, no 0x
Junk == <<"j", "u", "n", "k">>

MkEnv(a, t, p, v, u, m, d, r, z) ==
  [n \in {ASSET_ADDRESS, ATOKEN_ADDRESS, AAVE_PROVIDER_ADDRESS, VERIFIER_ADDRESS,
          MAX_USER_DEPOSIT, MAX_TOTAL_DEPOSIT, ASSET_DECIMALS, REBALANCER_ADDRESS,
          AUTHORIZE_VAULT} |->
     CASE n = ASSET_ADDRESS -> a
       [] n = ATOKEN_ADDRESS -> t
       [] n = AAVE_PROVIDER_ADDRESS -> p
       [] n = VERIFIER_ADDRESS -> v
       [] n = MAX_USER_DEPOSIT -> u
       [] n = MAX_TOTAL_DEPOSIT -> m
       [] n = ASSET_DECIMALS -> d
       [] n = REBALANCER_ADDRESS -> r
       [] n = AUTHORIZE_VAULT -> z]

AuthorizeValues == {Unset, Set(<<"t", "r", "u", "e">>), Set(<<"T", "R", "U", "E">>),
                    Set(<<"T", "r", "u", "e">>), Set(<<"1">>)}
RebalancerValues == {Unset, Set(<<>>), Set(Account1), Set(Addr("a")), Set(Account2), Set(Junk)}
DecimalsValues == {Unset, Set(<<"1", "8">>), Set(<<"6">>), Set(<<"0">>), Set(<<"a", "b", "c">>), Set(<<>>)}
UserDepositValues == {Unset, Set(<<"1", "0", "0", "0">>), Set(<<"5", "0", "0">>),
                      Set(<<"0", "5", "0">>), Set(<<"a", "b", "c">>), Set(<<>>)}
TotalDepositValues == {Unset, Set(<<"2", "0", "0", "0", "0">>), Set(<<"1", "2", "x">>)}

\* every way a required address variable can be absent, empty or malformed
AddressValues(good) == {Unset, Set(<<>>), Set(good), Set(NonHex), Set(NonHexOne),
                        Set(TooShort), Set(TooLong), Set(NoPrefix)}

(***************************************************************************)
(* The chain, as the script sees it through the client                     *)
(***************************************************************************)
\* the start value of the deployer's transaction count is not known
MaxStartNonce == 1

\* the address of a contract created by `sender` at transaction count n:
\* an injective function of the two, as on the chain
CreateAddress(sender, n) == <<"0", "x">> \o Rep(sender[3], 20) \o Rep(Digits[n + 1], 20)

WalletLists == {<<>>, <<Account1>>, <<Account1, Account2>>, <<Account2, Account1>>}

\* one call made through the client: what was called, by which account, on
\* which contract, with which arguments, whether it succeeded, and the
\* address it created
ChainOp(op, name, from, to, args, ok, result) ==
  [op |-> op, name |-> name, from |-> from, to |-> to, args |-> args, ok |-> ok,
   result |-> result]

(***************************************************************************)
(* The run                                                                 *)
(***************************************************************************)
InitFrom(A, T, P, V, U, M, D, R, Z) ==
  /\ env \in {MkEnv(a, t, p, v, u, m, d, r, z) :
                a \in A, t \in T, p \in P, v \in V, u \in U, m \in M, d \in D, r \in R, z \in Z}
  /\ pc = "loadConfig"
  /\ params = <<>>
  /\ error = <<>>
  /\ exitCode = -1
  /\ ops = <<>>
  /\ wallets = <<>>
  /\ nonce = 0
  /\ deployed = {}
  /\ strategy = <<>>
  /\ vaultImplementation = <<>>
  /\ initData = <<>>
  /\ proxy = <<>>
  /\ vault = <<>>
  /\ report = <<>>

\* runs that exercise the deployment sequence and the optional settings
Init == InitFrom({Unset, Set(GoodAsset), Set(NonHex)}, {Set(GoodAToken), Set(<<>>)},
                 {Set(GoodProvider)}, {Set(GoodVerifier), Set(TooShort)},
                 UserDepositValues, TotalDepositValues, DecimalsValues,
                 RebalancerValues, AuthorizeValues)

\* runs that exercise every combination of the required address variables
InitConfig == InitFrom(AddressValues(GoodAsset), AddressValues(GoodAToken),
                       AddressValues(GoodProvider), AddressValues(GoodVerifier),
                       {Unset, Set(<<"a", "b", "c">>)}, {Unset}, {Unset},
                       {Unset, Set(Account1)}, {Unset, Set(<<"t", "r", "u", "e">>)})

\* the statements of the script in source order (lines 51-119)
ProgramOrder == <<"loadConfig", "connect", "getPublicClient", "getWalletClients",
                  "getChainId", "deployStrategy", "deployImplementation", "deployProxy",
                  "setVault", "setRebalancer", "authorizeCaller", "report", "done">>

\* the proxy deployed before the implementation
nextStep_ProxyFirst(step) ==
  CASE step = "deployStrategy" -> "deployProxy"
    [] step = "deployProxy" -> "deployImplementation"
    [] step = "deployImplementation" -> "setVault"
    [] OTHER -> ProgramOrder[(CHOOSE i \in 1..(Len(ProgramOrder) - 1) :
                                ProgramOrder[i] = step) + 1]

\* the statement that follows `step`
nextStep(step) ==
  ProgramOrder[(CHOOSE i \in 1..(Len(ProgramOrder) - 1) : ProgramOrder[i] = step) + 1]

\* an uncaught error at the top level ends the process with a non-zero code
Abort(kind, name) ==
  /\ pc' = "failed"
  /\ error' = <<[kind |-> kind, name |-> name]>>
  /\ exitCode' = 1

\* a rejected step that is caught and ignored
Await_Swallow(ok, next, name) == pc' = next /\ UNCHANGED <<error, exitCode>>

\* `await step` : the next statement runs only if the step did not reject
Await(ok, next, name) ==
  IF ok THEN pc' = next /\ UNCHANGED <<error, exitCode>>
  ELSE Abort("ChainOperationFailure", name)

deployer == wallets[1]

\* line 51
LoadConfig ==
  /\ pc = "loadConfig"
  /\ LET r == loadConfig(env) IN
       IF r.ok
         THEN /\ params' = <<r.value>>
              /\ pc' = nextStep("loadConfig")
              /\ UNCHANGED <<error, exitCode>>
         ELSE /\ params' = params
              /\ Abort(r.value.kind, r.value.name)
  /\ UNCHANGED <<env, ops, wallets, nonce, deployed, strategy, vaultImplementation, initData,
                 proxy, vault, report>>

\* line 52
Connect ==
  /\ pc = "connect"
  /\ \E ok \in BOOLEAN :
       /\ ops' = Append(ops, ChainOp("connect", "network", <<>>, <<>>, <<>>, ok, <<>>))
       /\ Await(ok, nextStep("connect"), "connect")
  /\ UNCHANGED <<env, params, wallets, nonce, deployed, strategy, vaultImplementation, initData,
                 proxy, vault, report>>

\* line 53
GetPublicClient ==
  /\ pc = "getPublicClient"
  /\ \E ok \in BOOLEAN :
       /\ ops' = Append(ops, ChainOp("getPublicClient", "viem", <<>>, <<>>, <<>>, ok, <<>>))
       /\ Await(ok, nextStep("getPublicClient"), "getPublicClient")
  /\ UNCHANGED <<env, params, wallets, nonce, deployed, strategy, vaultImplementation, initData,
                 proxy, vault, report>>

\* lines 54-56: the first wallet client is the deployer; with no wallet
\* client, reading deployer.account throws
GetWalletClients ==
  /\ pc = "getWalletClients"
  /\ \E ok \in BOOLEAN, ws \in WalletLists, n \in 0..MaxStartNonce :
       /\ ops' = Append(ops, ChainOp("getWalletClients", "viem", <<>>, <<>>, <<>>, ok, <<>>))
       /\ IF ~ok
            THEN Abort("ChainOperationFailure", "getWalletClients") /\ UNCHANGED <<wallets, nonce>>
          ELSE IF ws = <<>>
            THEN Abort("TypeError", "deployer") /\ UNCHANGED <<wallets, nonce>>
          ELSE /\ wallets' = ws
               /\ nonce' = n
               /\ pc' = nextStep("getWalletClients")
               /\ UNCHANGED <<error, exitCode>>
  /\ UNCHANGED <<env, params, deployed, strategy, vaultImplementation, initData, proxy, vault,
                 report>>

\* line 57
GetChainId ==
  /\ pc = "getChainId"
  /\ \E ok \in BOOLEAN :
       /\ ops' = Append(ops, ChainOp("getChainId", "publicClient", <<>>, <<>>, <<>>, ok, <<>>))
       /\ Await(ok, nextStep("getChainId"), "getChainId")
  /\ UNCHANGED <<env, params, wallets, nonce, deployed, strategy, vaultImplementation, initData,
                 proxy, vault, report>>

\* a deployment or write transaction that succeeds uses one transaction count
Sent(ok) == nonce' = IF ok THEN nonce + 1 ELSE nonce

\* viem.deployContract(name, {account, args}): on success the contract lives
\* at a new address, which the returned handle carries
DeployContract(name, args, ok) ==
  LET address == IF ok THEN CreateAddress(deployer, nonce) ELSE <<>> IN
  /\ ops' = Append(ops, ChainOp("deployContract", name, deployer, <<>>, args, ok, address))
  /\ deployed' = IF ok THEN deployed \cup {address} ELSE deployed
  /\ Sent(ok)

\* lines 59-63
DeployStrategy ==
  /\ pc = "deployStrategy"
  /\ \E ok \in BOOLEAN :
       /\ DeployContract("AaveV3Strategy",
                         <<params[1].asset, params[1].aToken, params[1].addressesProvider>>, ok)
       /\ strategy' = IF ok THEN ops'[Len(ops')].result ELSE strategy
       /\ Await(ok, nextStep("deployStrategy"), "AaveV3Strategy")
  /\ UNCHANGED <<env, params, wallets, vaultImplementation, initData, proxy, vault, report>>

\* lines 65-68
DeployImplementation ==
  /\ pc = "deployImplementation"
  /\ \E ok \in BOOLEAN :
       /\ DeployContract("AttestifyVault", <<>>, ok)
       /\ vaultImplementation' = IF ok THEN ops'[Len(ops')].result ELSE vaultImplementation
       /\ Await(ok, nextStep("deployImplementation"), "AttestifyVault")
  /\ UNCHANGED <<env, params, wallets, strategy, initData, proxy, vault, report>>

\* lines 70-80: encodeFunctionData for initialize
encodeInitialize(p, strategyAddress, implementationAddress) ==
  [functionName |-> "initialize",
   args |-> <<p.asset, strategyAddress, p.verifier, p.maxUserDeposit, p.maxTotalDeposit>>]

\* line 85: the constructor arguments of the proxy
proxyArgs(implementationAddress, data) == <<implementationAddress, data>>

\* the vault handle taken at the implementation's address
vaultAt_Implementation(proxyAddress, implementationAddress) == implementationAddress

\* line 88: the vault is the AttestifyVault interface at the proxy's address
vaultAt(proxyAddress, implementationAddress) == proxyAddress

\* lines 70-89
DeployProxy ==
  /\ pc = "deployProxy"
  /\ initData' = <<encodeInitialize(params[1], strategy, vaultImplementation)>>
  /\ \E ok \in BOOLEAN :
       /\ DeployContract("TestProxy", proxyArgs(vaultImplementation, initData'[1]), ok)
       /\ proxy' = IF ok THEN ops'[Len(ops')].result ELSE proxy
       /\ vault' = IF ok THEN vaultAt(proxy', vaultImplementation) ELSE vault
       /\ Await(ok, nextStep("deployProxy"), "TestProxy")
  /\ UNCHANGED <<env, params, wallets, strategy, vaultImplementation, report>>

\* lines 91-94
SetVault ==
  /\ pc = "setVault"
  /\ \E ok \in BOOLEAN :
       /\ ops' = Append(ops, ChainOp("write", "setVault", deployer, strategy, <<vault>>, ok, <<>>))
       /\ Sent(ok)
       /\ Await(ok, nextStep("setVault"), "setVault")
  /\ UNCHANGED <<env, params, wallets, deployed, strategy, vaultImplementation, initData,
                 proxy, vault, report>>

\* the rebalancer test without the comparison with the deployer
hasCustomRebalancer_AnyPresent(p, account) ==
  /\ p.rebalancer # Unset
  /\ p.rebalancer[1] # <<>>

\* line 96: params.rebalancer && params.rebalancer !== deployer.account.address
\* (undefined and "" are falsy; !== compares the two strings)
hasCustomRebalancer(p, account) ==
  /\ p.rebalancer # Unset
  /\ p.rebalancer[1] # <<>>
  /\ p.rebalancer[1] # account

\* lines 96-101, condition true
SetRebalancer ==
  /\ pc = "setRebalancer"
  /\ hasCustomRebalancer(params[1], deployer)
  /\ \E ok \in BOOLEAN :
       /\ ops' = Append(ops, ChainOp("write", "setRebalancer", deployer, vault,
                                     <<params[1].rebalancer[1]>>, ok, <<>>))
       /\ Sent(ok)
       /\ Await(ok, nextStep("setRebalancer"), "setRebalancer")
  /\ UNCHANGED <<env, params, wallets, deployed, strategy, vaultImplementation, initData,
                 proxy, vault, report>>

\* lines 96-101, condition false
SkipRebalancer ==
  /\ pc = "setRebalancer"
  /\ ~hasCustomRebalancer(params[1], deployer)
  /\ pc' = nextStep("setRebalancer")
  /\ UNCHANGED <<env, params, error, exitCode, ops, wallets, nonce, deployed, strategy,
                 vaultImplementation, initData, proxy, vault, report>>

\* lines 103-109, condition true
AuthorizeCaller ==
  /\ pc = "authorizeCaller"
  /\ params[1].authorizeVaultOnVerifier
  /\ \E ok \in BOOLEAN :
       /\ ops' = Append(ops, ChainOp("write", "authorizeCaller", deployer,
                                     params[1].verifier, <<vault>>, ok, <<>>))
       /\ Sent(ok)
       /\ Await(ok, nextStep("authorizeCaller"), "authorizeCaller")
  /\ UNCHANGED <<env, params, wallets, deployed, strategy, vaultImplementation, initData,
                 proxy, vault, report>>

\* lines 103-109, condition false
SkipAuthorize ==
  /\ pc = "authorizeCaller"
  /\ ~params[1].authorizeVaultOnVerifier
  /\ pc' = nextStep("authorizeCaller")
  /\ UNCHANGED <<env, params, error, exitCode, ops, wallets, nonce, deployed, strategy,
                 vaultImplementation, initData, proxy, vault, report>>

\* lines 111-119: the final report; the script then ends with exit code 0
Report ==
  /\ pc = "report"
  /\ report' = <<strategy, vaultImplementation, vault>>
  /\ pc' = nextStep("report")
  /\ exitCode' = 0
  /\ UNCHANGED <<env, params, error, ops, wallets, nonce, deployed, strategy, vaultImplementation,
                 initData, proxy, vault>>

Next ==
  \/ LoadConfig
  \/ Connect
  \/ GetPublicClient
  \/ GetWalletClients
  \/ GetChainId
  \/ DeployStrategy
  \/ DeployImplementation
  \/ DeployProxy
  \/ SetVault
  \/ SetRebalancer
  \/ SkipRebalancer
  \/ AuthorizeCaller
  \/ SkipAuthorize
  \/ Report

Spec == Init /\ [][Next]_vars

SpecConfig == InitConfig /\ [][Next]_vars

(***************************************************************************)
(* Vocabulary of the properties                                            *)
(***************************************************************************)
Loaded == params # <<>>
LoadFinished == pc # "loadConfig"
\* loadConfig threw: the run failed without having loaded a configuration
LoadFailed == pc = "failed" /\ ~Loaded

IsMissing(v) == env[v] = Unset \/ env[v] = Set(<<>>)
HexChars == DigitChars \cup {"a", "b", "c", "d", "e", "f", "A", "B", "C", "D", "E", "F"}
\* 0x followed by exactly 40 hexadecimal characters
WellFormed(s) ==
  /\ Len(s) = 42
  /\ s[1] = "0" /\ s[2] = "x"
  /\ \A i \in 3..42 : s[i] \in HexChars
\* set, not empty, and refused by the prefix-and-length test
IsRefused(v) == ~IsMissing(v) /\ ~(Len(env[v][1]) = 42 /\ SubSeq(env[v][1], 1, 2) = <<"0", "x">>)
ErrorIs(kind, name) == error = <<[kind |-> kind, name |-> name]>>

OpNames == [i \in 1..Len(ops) |-> ops[i].name]
Calls(name) == {i \in 1..Len(ops) : ops[i].name = name}
Called(name) == Calls(name) # {}

\* C1 as stated: whenever a required variable is absent or empty, loadConfig
\* fails with the MissingConfiguration error naming that variable and no
\* chain operation is attempted.
C1_MissingNamesThatVariable ==
  LoadFinished =>
    \A i \in 1..4 :
      IsMissing(RequiredVars[i]) =>
        /\ ErrorIs("MissingConfiguration", RequiredVars[i])
        /\ ops = <<>>

\* C1 amended: whenever a required variable is absent or empty, loadConfig
\* fails and no chain operation is attempted; the error names the first
\* required variable (in the order ASSET_ADDRESS, ATOKEN_ADDRESS,
\* AAVE_PROVIDER_ADDRESS, VERIFIER_ADDRESS) that is absent, empty or refused
\* as malformed, and is MissingConfiguration exactly when that variable is
\* absent or empty.  No chain operation occurs unless a complete
\* configuration was loaded.
C1_ConfigGate ==
  /\ LoadFinished =>
       \A i \in 1..4 :
         IsMissing(RequiredVars[i]) =>
           /\ LoadFailed
           /\ ops = <<>>
           /\ \E j \in 1..i :
                /\ \A k \in 1..(j - 1) :
                     ~IsMissing(RequiredVars[k]) /\ ~IsRefused(RequiredVars[k])
                /\ IF IsMissing(RequiredVars[j])
                     THEN ErrorIs("MissingConfiguration", RequiredVars[j])
                     ELSE /\ IsRefused(RequiredVars[j])
                          /\ ErrorIs("InvalidAddressFormat", RequiredVars[j])
  /\ ops # <<>> =>
       /\ Loaded
       /\ \A i \in 1..4 : ~IsMissing(RequiredVars[i])
       /\ DOMAIN params[1] = {"asset", "aToken", "addressesProvider", "verifier",
                              "maxUserDeposit", "maxTotalDeposit", "assetDecimals",
                              "rebalancer", "authorizeVaultOnVerifier"}
  /\ ~Loaded => ops = <<>>

\* C1 witness: VERIFIER_ADDRESS alone is absent, loadConfig has failed naming
\* it, and nothing was sent to the chain.
C1_Witness ==
  /\ env[VERIFIER_ADDRESS] = Unset
  /\ \A i \in 1..3 : ~IsMissing(RequiredVars[i]) /\ ~IsRefused(RequiredVars[i])
  /\ pc = "failed"
  /\ ErrorIs("MissingConfiguration", VERIFIER_ADDRESS)
  /\ ops = <<>>

\* C2 as stated: a non-empty required address that is not 0x + 40 hex
\* characters makes loadConfig fail with InvalidAddressFormat (when no
\* required variable is missing), so every address of a loaded configuration
\* is a well-formed 20-byte hex address.
C2_MalformedAddressRejected ==
  LoadFinished =>
    /\ ( /\ \A i \in 1..4 : ~IsMissing(RequiredVars[i])
         /\ \E i \in 1..4 : ~WellFormed(env[RequiredVars[i]][1]) )
       => /\ LoadFailed
          /\ \E i \in 1..4 : /\ ~WellFormed(env[RequiredVars[i]][1])
                             /\ ErrorIs("InvalidAddressFormat", RequiredVars[i])
    /\ Loaded =>
         /\ WellFormed(params[1].asset)
         /\ WellFormed(params[1].aToken)
         /\ WellFormed(params[1].addressesProvider)
         /\ WellFormed(params[1].verifier)

\* the chain steps in the order the script takes them
ChainSteps == <<"connect", "getPublicClient", "getWalletClients", "getChainId",
                "AaveV3Strategy", "AttestifyVault", "TestProxy",
                "setVault", "setRebalancer", "authorizeCaller">>
Label(o) == IF o.op \in {"deployContract", "write"} THEN o.name ELSE o.op
Labels == [i \in 1..Len(ops) |-> Label(ops[i])]
Rank(l) == CHOOSE i \in 1..Len(ChainSteps) : ChainSteps[i] = l
Step(l) == {i \in 1..Len(ops) : Label(ops[i]) = l}
Did(l) == Step(l) # {}
Succeeded(l) == \E i \in Step(l) : ops[i].ok
\* the address returned by the successful deployment of contract `name`
AddressOf(name) == ops[CHOOSE i \in Step(name) : ops[i].ok].result
Zeros(n) == [i \in 1..n |-> 0]
TrueString == <<"t", "r", "u", "e">>

\* C3: a failed chain step is the last chain step of the run: nothing runs
\* after it, it is not retried, the run ends failed with exit code 1 and the
\* failure as its error, nothing is reported, and the contracts deployed
\* before it are still deployed.  In particular a failed proxy deployment is
\* followed by no setVault, setRebalancer or authorizeCaller.
C3_AbortOnFailure ==
  /\ \A i \in 1..Len(ops) :
       ~ops[i].ok =>
         /\ i = Len(ops)
         /\ pc = "failed"
         /\ ErrorIs("ChainOperationFailure", Label(ops[i]))
         /\ report = <<>>
         /\ Cardinality(Step(Label(ops[i]))) = 1
  /\ (Did("TestProxy") /\ ~Succeeded("TestProxy")) =>
       ~Did("setVault") /\ ~Did("setRebalancer") /\ ~Did("authorizeCaller")
  /\ pc = "failed" => exitCode = 1 /\ error # <<>> /\ ~ENABLED Next
  /\ deployed = {ops[i].result : i \in {j \in 1..Len(ops) :
                                         ops[j].op = "deployContract" /\ ops[j].ok}}
  /\ Cardinality(deployed) =
       Cardinality({j \in 1..Len(ops) : ops[j].op = "deployContract" /\ ops[j].ok})

\* C3 witness: the proxy deployment failed after the strategy and the
\* implementation were deployed; the run is over.
C3_Witness ==
  /\ Did("TestProxy") /\ ~Succeeded("TestProxy")
  /\ pc = "failed"
  /\ Cardinality(deployed) = 2

NoRebalancerNoAuthorize == env[REBALANCER_ADDRESS] = Unset /\ env[AUTHORIZE_VAULT] = Unset

\* C4: chain steps happen in the fixed order, each at most once, each only
\* after the previous one succeeded, with no step skipped up to setVault; the
\* report is made only after all of them and holds three addresses.  With no
\* rebalancer and AUTHORIZE_VAULT unset, a completed run made exactly the
\* deployments strategy, implementation, proxy in that order, then setVault
\* once, never setRebalancer or authorizeCaller, and reported the three
\* addresses.
C4_SuccessfulRunOrder ==
  /\ \A i, j \in 1..Len(ops) : i < j => Rank(Labels[i]) < Rank(Labels[j])
  /\ \A i \in 1..Len(ops) : i <= 8 => Labels[i] = ChainSteps[i]
  /\ \A i \in 1..(Len(ops) - 1) : ops[i].ok
  /\ report # <<>> =>
       /\ pc = "done"
       /\ Len(report) = 3
       /\ \A i \in 1..Len(ops) : ops[i].ok
  /\ pc = "done" => exitCode = 0 /\ report # <<>>
  /\ NoRebalancerNoAuthorize => ~Did("setRebalancer") /\ ~Did("authorizeCaller")
  /\ (pc = "done" /\ NoRebalancerNoAuthorize) =>
       /\ Labels = SubSeq(ChainSteps, 1, 8)
       /\ SelectSeq(ops, LAMBDA o : o.op = "deployContract")
            = <<ops[5], ops[6], ops[7]>>
       /\ SelectSeq(ops, LAMBDA o : o.op = "write") = <<ops[8]>>
       /\ report = <<ops[5].result, ops[6].result, ops[7].result>>
       /\ Cardinality({report[1], report[2], report[3]}) = 3

\* C4 witness: the end-to-end scenario (MAX_USER_DEPOSIT=500, ASSET_DECIMALS=6,
\* no rebalancer, AUTHORIZE_VAULT unset) has run to completion.
C4_Witness ==
  /\ pc = "done"
  /\ NoRebalancerNoAuthorize
  /\ env[MAX_USER_DEPOSIT] = Set(<<"5", "0", "0">>)
  /\ env[ASSET_DECIMALS] = Set(<<"6">>)
  /\ Len(report) = 3

RebalancerConfigured ==
  env[REBALANCER_ADDRESS] # Unset /\ env[REBALANCER_ADDRESS][1] # <<>>

\* C5: setRebalancer is called at most once, only with a configured
\* rebalancer that differs from the deployer's address, on the vault at the
\* proxy's address, after setVault; and once the run is past that step it
\* was called if and only if a rebalancer is configured and differs from the
\* deployer's address.
C5_RebalancerStep ==
  /\ Cardinality(Step("setRebalancer")) <= 1
  /\ \A i \in Step("setRebalancer") :
       /\ RebalancerConfigured
       /\ env[REBALANCER_ADDRESS][1] # wallets[1]
       /\ ops[i].to = AddressOf("TestProxy")
       /\ ops[i].from = wallets[1]
       /\ \E j \in Step("setVault") : j < i /\ ops[j].ok
  /\ (RebalancerConfigured /\ wallets # <<>> /\ env[REBALANCER_ADDRESS][1] = wallets[1])
       => ~Did("setRebalancer")
  /\ (pc \in {"authorizeCaller", "report", "done"} \/ Did("authorizeCaller")) =>
       (Did("setRebalancer") <=>
          (RebalancerConfigured /\ env[REBALANCER_ADDRESS][1] # wallets[1]))

\* C5 witness: REBALANCER_ADDRESS is the deployer's own address and the run
\* completed without calling setRebalancer.
C5_Witness ==
  /\ pc = "done"
  /\ RebalancerConfigured
  /\ env[REBALANCER_ADDRESS][1] = wallets[1]
  /\ ~Did("setRebalancer")

\* C6: authorizeVaultOnVerifier is true exactly when AUTHORIZE_VAULT is the
\* string "true" ("TRUE", "True", "1" and unset give false); authorizeCaller
\* is called at most once, on the configured verifier address, with the
\* proxy's address, after setVault and any setRebalancer; once the run is
\* past that step it was called if and only if the flag is true.
C6_ExactMatchAuthorization ==
  /\ Loaded =>
       /\ params[1].authorizeVaultOnVerifier <=> (env[AUTHORIZE_VAULT] = Set(TrueString))
       /\ env[AUTHORIZE_VAULT] \in {Unset, Set(<<"T", "R", "U", "E">>),
                                    Set(<<"T", "r", "u", "e">>), Set(<<"1">>)}
            => ~params[1].authorizeVaultOnVerifier
  /\ Cardinality(Step("authorizeCaller")) <= 1
  /\ \A i \in Step("authorizeCaller") :
       /\ env[AUTHORIZE_VAULT] = Set(TrueString)
       /\ ops[i].to = env[VERIFIER_ADDRESS][1]
       /\ ops[i].args = <<AddressOf("TestProxy")>>
       /\ Succeeded("setVault")
       /\ \A j \in Step("setVault") \cup Step("setRebalancer") : j < i /\ ops[j].ok
  /\ pc \in {"report", "done"} =>
       (Did("authorizeCaller") <=> (env[AUTHORIZE_VAULT] = Set(TrueString)))

\* C6 witness: AUTHORIZE_VAULT is "true" and the completed run called
\* authorizeCaller after setRebalancer.
C6_Witness ==
  /\ pc = "done"
  /\ env[AUTHORIZE_VAULT] = Set(TrueString)
  /\ Did("authorizeCaller")
  /\ Did("setRebalancer")

NonNumeric(s) == \E i \in 1..Len(s) : s[i] \notin DigitChars
IsDecimal(s) == s # <<>> /\ ~NonNumeric(s)

\* C7 as stated: assetDecimals is 18 when ASSET_DECIMALS is unset or
\* non-numeric, and the amounts are then scaled by 18; when ASSET_DECIMALS
\* is a numeric string assetDecimals is that number.
C7_DecimalsDefault ==
  Loaded =>
    /\ (env[ASSET_DECIMALS] = Unset \/ NonNumeric(env[ASSET_DECIMALS][1])) =>
         /\ params[1].assetDecimals = Num(18)
         /\ env[MAX_USER_DEPOSIT] = Unset =>
              params[1].maxUserDeposit = <<1, 0, 0, 0>> \o Zeros(18)
         /\ env[MAX_TOTAL_DEPOSIT] = Unset =>
              params[1].maxTotalDeposit = <<1, 0, 0, 0, 0>> \o Zeros(18)
    /\ (env[ASSET_DECIMALS] # Unset /\ IsDecimal(env[ASSET_DECIMALS][1])) =>
         params[1].assetDecimals = Num(DecValue(env[ASSET_DECIMALS][1]))

RECURSIVE NatDigits(_)
NatDigits(n) == IF n < 10 THEN <<n>> ELSE NatDigits(n \div 10) \o <<n % 10>>
\* the decimal digits of n * 10^d
Scaled(n, d) == IF n = 0 THEN <<0>> ELSE NatDigits(n) \o Zeros(d)
RECURSIVE BigValue(_)
BigValue(ds) == IF ds = <<>> THEN 0
                ELSE 10 * BigValue(SubSeq(ds, 1, Len(ds) - 1)) + ds[Len(ds)]
AddressesPass == \A i \in 1..4 : ~IsMissing(RequiredVars[i]) /\ ~IsRefused(RequiredVars[i])

\* C8: with assetDecimals a number d, a decimal integer string n in
\* MAX_USER_DEPOSIT or MAX_TOTAL_DEPOSIT is loaded as n * 10^d, an unset
\* variable as 1000 * 10^d and 10000 * 10^d, a variable set to the empty
\* string as 0 (the fallback is for unset only), "1000" at 18 decimals as
\* 10^21; a non-numeric amount makes loadConfig fail with InvalidAmountFormat
\* before any chain operation.
C8_AmountScaling ==
  /\ (Loaded /\ ~params[1].assetDecimals.nan) =>
       LET d == params[1].assetDecimals.val
           u == env[MAX_USER_DEPOSIT]
           t == env[MAX_TOTAL_DEPOSIT]
       IN
       /\ u = Unset => params[1].maxUserDeposit = Scaled(1000, d)
       /\ t = Unset => params[1].maxTotalDeposit = Scaled(10000, d)
       /\ (u # Unset /\ IsDecimal(u[1])) =>
            params[1].maxUserDeposit = Scaled(DecValue(u[1]), d)
       /\ (t # Unset /\ IsDecimal(t[1])) =>
            params[1].maxTotalDeposit = Scaled(DecValue(t[1]), d)
       /\ u = Set(<<>>) => params[1].maxUserDeposit = <<0>>
       /\ (u = Set(<<"1", "0", "0", "0">>) /\ d = 18) =>
            params[1].maxUserDeposit = <<1>> \o Zeros(21)
       /\ (d <= 6 /\ u # Unset /\ IsDecimal(u[1]) /\ DecValue(u[1]) <= 1000) =>
            BigValue(params[1].maxUserDeposit) = DecValue(u[1]) * 10^d
       /\ (d <= 5 /\ t = Unset) => BigValue(params[1].maxTotalDeposit) = 10000 * 10^d
  /\ (LoadFinished /\ AddressesPass
        /\ \E v \in {MAX_USER_DEPOSIT, MAX_TOTAL_DEPOSIT} :
             env[v] # Unset /\ NonNumeric(env[v][1])) =>
       /\ LoadFailed
       /\ ErrorIs("InvalidAmountFormat", "parseUnits")
  /\ (error # <<>> /\ error[1].kind = "InvalidAmountFormat") => ops = <<>>

\* C8 witness: MAX_USER_DEPOSIT is "1000" at 18 decimals and was loaded as
\* 10^21.
C8_Witness ==
  /\ Loaded
  /\ env[MAX_USER_DEPOSIT] = Set(<<"1", "0", "0", "0">>)
  /\ params[1].assetDecimals = Num(18)
  /\ params[1].maxUserDeposit = <<1>> \o Zeros(21)

\* something other than REBALANCER_ADDRESS makes loadConfig fail
LoadBlocked ==
  \/ ~AddressesPass
  \/ \E v \in {MAX_USER_DEPOSIT, MAX_TOTAL_DEPOSIT} : env[v] # Unset /\ NonNumeric(env[v][1])

\* C9: loadConfig never fails because of REBALANCER_ADDRESS and stores its
\* value unchanged; a non-empty value different from the deployer's address
\* is the argument of setRebalancer, unchanged; setRebalancer, and so any
\* failure a malformed rebalancer causes, comes only after the strategy,
\* implementation and proxy were deployed and setVault was executed.
C9_RebalancerUnvalidated ==
  /\ (LoadFinished /\ ~LoadBlocked) => Loaded
  /\ Loaded => params[1].rebalancer = env[REBALANCER_ADDRESS]
  /\ LoadFailed => LoadBlocked /\ error[1].name # REBALANCER_ADDRESS
  /\ \A i \in Step("setRebalancer") :
       /\ ops[i].args = <<env[REBALANCER_ADDRESS][1]>>
       /\ Succeeded("AaveV3Strategy") /\ Succeeded("AttestifyVault")
       /\ Succeeded("TestProxy") /\ Succeeded("setVault")
       /\ \A l \in {"AaveV3Strategy", "AttestifyVault", "TestProxy", "setVault"} :
            \A j \in Step(l) : j < i
  /\ (pc \in {"authorizeCaller", "report", "done"} /\ RebalancerConfigured
        /\ env[REBALANCER_ADDRESS][1] # wallets[1]) =>
       \E i \in Step("setRebalancer") : ops[i].args = <<env[REBALANCER_ADDRESS][1]>>

\* C9 witness: REBALANCER_ADDRESS is not an address; the configuration
\* loaded, three contracts were deployed, setVault ran, and setRebalancer
\* was sent with that value and failed.
C9_Witness ==
  /\ env[REBALANCER_ADDRESS] = Set(Junk)
  /\ Cardinality(deployed) = 3
  /\ Succeeded("setVault")
  /\ \E i \in Step("setRebalancer") : ops[i].args = <<Junk>> /\ ~ops[i].ok
  /\ pc = "failed"

\* C10: the initialize data holds (asset, the strategy's address, verifier,
\* maxUserDeposit, maxTotalDeposit); the proxy is constructed with (the
\* implementation's address, that data); setVault goes to the strategy with
\* the proxy's address; setRebalancer goes to the proxy's address;
\* authorizeCaller carries the proxy's address; the reported vault address is
\* the proxy's; none of them is the implementation's address; every
\* deployment and write is sent by the first wallet account; the
\* configuration is the one loaded from the environment.
C10_AddressDataFlow ==
  /\ Loaded => Return(params[1]) = loadConfig(env)
  /\ \A i \in Step("AaveV3Strategy") :
       ops[i].args = <<env[ASSET_ADDRESS][1], env[ATOKEN_ADDRESS][1],
                       env[AAVE_PROVIDER_ADDRESS][1]>>
  /\ \A i \in Step("TestProxy") :
       /\ Len(ops[i].args) = 2
       /\ ops[i].args[1] = AddressOf("AttestifyVault")
       /\ ops[i].args[2].functionName = "initialize"
       /\ Len(ops[i].args[2].args) = 5
       /\ ops[i].args[2].args[1] = env[ASSET_ADDRESS][1]
       /\ ops[i].args[2].args[2] = AddressOf("AaveV3Strategy")
       /\ ops[i].args[2].args[3] = env[VERIFIER_ADDRESS][1]
       /\ ops[i].args[2].args[4] = params[1].maxUserDeposit
       /\ ops[i].args[2].args[5] = params[1].maxTotalDeposit
       /\ initData = <<ops[i].args[2]>>
  /\ \A i \in Step("setVault") :
       /\ ops[i].to = AddressOf("AaveV3Strategy")
       /\ ops[i].args = <<AddressOf("TestProxy")>>
       /\ ops[i].args # <<AddressOf("AttestifyVault")>>
  /\ \A i \in Step("setRebalancer") :
       ops[i].to = AddressOf("TestProxy") /\ ops[i].to # AddressOf("AttestifyVault")
  /\ \A i \in Step("authorizeCaller") :
       ops[i].args = <<AddressOf("TestProxy")>> /\ ops[i].args # <<AddressOf("AttestifyVault")>>
  /\ report # <<>> =>
       report = <<AddressOf("AaveV3Strategy"), AddressOf("AttestifyVault"),
                  AddressOf("TestProxy")>>
  /\ \A i \in 1..Len(ops) :
       ops[i].op \in {"deployContract", "write"} => ops[i].from = wallets[1]

\* C10 witness: a completed run with two wallet accounts that made all three
\* writes.
C10_Witness ==
  /\ pc = "done"
  /\ Len(wallets) = 2
  /\ Did("setVault") /\ Did("setRebalancer") /\ Did("authorizeCaller")

====
